---- MODULE Spec2Model ----
(***************************************************************************)
(* fast_merkle_root (src/src/fast_merkle_root.rs): the merkle root of a    *)
(* vector of H256 digests, reduced in place level by level.                *)
(*                                                                         *)
(* The function is modelled twice from the same building blocks:           *)
(*   - as a state machine that takes one step per statement of the body    *)
(*     (the entry tests, the outer loop test, the padding branch, one      *)
(*     iteration of the inner loop, split_off, the final read), and        *)
(*   - as the operator fast_merkle_root(leaves), the same statements       *)
(*     composed, used where a claim relates the roots of two inputs.       *)
(* Indices are the code's 0-based indices; Get/Set translate them to the   *)
(* 1-based sequences of TLA+.                                              *)
(***************************************************************************)
EXTENDS Integers, Sequences, FiniteSets

\* ----------------------------------------------------------------- bounds
\* Longest leaf vector drawn as input.
MaxLen == 7

\* Number of distinct leaf digests inputs are drawn from (zero is one of them).
NumDigests == 3

\* ------------------------------------------------------------------ H256
\* crate::hash is not part of the sources at hand.  A leaf digest is an
\* opaque value; the compression is the uninterpreted, deterministic,
\* order-sensitive function of its two arguments ("hash of a's bytes
\* followed by b's bytes"): a term that records left and right argument.
Leaf(n) == [v |-> n]

\* H256::zero(), the all-zero digest.
zero == Leaf(0)

LeafDigests == {Leaf(n) : n \in 0 .. NumDigests - 1}

\* a.hash_with(b)
hash_with(a, b) == [l |-> a, r |-> b]

\* ------------------------------------------------------- Vec<H256> access
\* v.len()
len(v) == Len(v)

\* Whether the 0-based index k is inside v (an index outside panics).
InBounds(v, k) == k >= 0 /\ k < len(v)

\* v[k], 0-based.
Get(v, k) == v[k + 1]

\* v[k] = d, 0-based.
Set(v, k, d) == [v EXCEPT ![k + 1] = d]

\* ----------------------------------------------- statements of the body
\* The padding test taken on even lengths instead of odd ones.
IsOddInverted(v) == len(v) % 2 = 0

\* if leaves.len() & 1 != 0
IsOdd(v) == len(v) % 2 # 0

\* The padding element taken to be the first element instead of the last one.
PushFirst(v) == Append(v, Get(v, 0))

\* The padding element taken to be the zero digest instead of the last one.
PushLastZero(v) == Append(v, zero)

\* leaves.push(leaves[leaves.len() - 1])
PushLast(v) == Append(v, Get(v, len(v) - 1))

\* The inner loop running one iteration too far.
InnerGuardInclusive(v, k) == k <= len(v) \div 2

\* while i < leaves.len() / 2
InnerGuard(v, k) == k < len(v) \div 2

\* A sort key on digests, for the commutative pairing below.
RECURSIVE SortKey(_)
SortKey(d) ==
    IF "v" \in DOMAIN d THEN d.v ELSE (3 * SortKey(d.l) + 5 * SortKey(d.r) + 1) % 7

\* The pair hashed with right and left exchanged.
PairHashSwapped(v, k) == hash_with(Get(v, k * 2 + 1), Get(v, k * 2))

\* The pair hashed smaller child first, whatever its position (commutative).
PairHashSorted(v, k) ==
    IF SortKey(Get(v, k * 2 + 1)) < SortKey(Get(v, k * 2))
      THEN hash_with(Get(v, k * 2 + 1), Get(v, k * 2))
      ELSE hash_with(Get(v, k * 2), Get(v, k * 2 + 1))

\* leaves[i * 2].hash_with(leaves[i * 2 + 1])
PairHash(v, k) == hash_with(Get(v, k * 2), Get(v, k * 2 + 1))

\* The parent written over its right child instead of to the front.
StoreAtRight(v, k, d) == Set(v, k * 2 + 1, d)

\* leaves[i] = left
Store(v, k, d) == Set(v, k, d)

\* let drain_start = leaves.len() / 2; leaves.split_off(drain_start);
SplitOff(v) == SubSeq(v, 1, len(v) \div 2)

\* while leaves.len() > 1
OuterGuard(v) == len(v) > 1

\* ------------------------------------------- the function as an operator
\* The inner loop from counter k on: while i < leaves.len() / 2 { ... }
RECURSIVE InnerLoop(_, _)
InnerLoop(v, k) ==
    IF InnerGuard(v, k) THEN InnerLoop(Store(v, k, PairHash(v, k)), k + 1) ELSE v

\* One iteration of the outer loop: pad, pair, truncate.
Round(v) == SplitOff(InnerLoop(IF IsOdd(v) THEN PushLast(v) ELSE v, 0))

\* while leaves.len() > 1 { ... } leaves[0]
RECURSIVE OuterLoop(_)
OuterLoop(v) == IF OuterGuard(v) THEN OuterLoop(Round(v)) ELSE Get(v, 0)

\* pub fn fast_merkle_root(mut leaves: Vec<H256>) -> H256
fast_merkle_root(v) ==
    IF len(v) = 0 THEN zero
    ELSE IF len(v) < 2 THEN Get(v, 0)
    ELSE OuterLoop(v)

\* ----------------------------------------------------- the state machine
VARIABLES
    input,      \* the argument of the call, as the caller passed it
    leaves,     \* the buffer `leaves` (the function owns it: `mut leaves`)
    i,          \* the inner loop's counter
    pc,         \* position in the body
    result,     \* the returned digest, once pc = "done"
    rounds,     \* history: iterations of the outer loop started so far
    pads,       \* history: times the padding branch was taken
    hashes,     \* history: calls of hash_with so far
    n,          \* history: leaves.len() when the current round started
    level,      \* history: the buffer when the current round started
    prev        \* history: the buffer right after this round's padding step

vars == <<input, leaves, i, pc, result, rounds, pads, hashes, n, level, prev>>

\* Every leaf vector of at most MaxLen leaves.
Inputs == UNION {[1 .. k -> LeafDigests] : k \in 0 .. MaxLen}

\* No digest has been returned yet.
NoResult == [none |-> TRUE]

Init ==
    /\ input \in Inputs
    /\ leaves = input
    /\ i = 0
    /\ pc = "entry"
    /\ result = NoResult
    /\ rounds = 0
    /\ pads = 0
    /\ hashes = 0
    /\ n = 0
    /\ level = <<>>
    /\ prev = <<>>

\* The empty test left out: the empty vector reaches `leaves[0]`.
ReturnZeroMissing ==
    /\ pc = "entry"
    /\ len(leaves) = 0
    /\ pc' = "panic"
    /\ UNCHANGED <<input, leaves, i, result, rounds, pads, hashes, n, level, prev>>

\* if leaves.len() == 0 { return H256::zero(); }
ReturnZero ==
    /\ pc = "entry"
    /\ len(leaves) = 0
    /\ result' = zero
    /\ pc' = "done"
    /\ UNCHANGED <<input, leaves, i, rounds, pads, hashes, n, level, prev>>

\* The one-leaf return answering with the zero digest, like the empty one.
ReturnSingleZero ==
    /\ pc = "entry"
    /\ len(leaves) # 0
    /\ len(leaves) < 2
    /\ result' = zero
    /\ pc' = "done"
    /\ UNCHANGED <<input, leaves, i, rounds, pads, hashes, n, level, prev>>

\* if leaves.len() < 2 { return leaves[0]; }
ReturnSingle ==
    /\ pc = "entry"
    /\ len(leaves) # 0
    /\ len(leaves) < 2
    /\ result' = Get(leaves, 0)
    /\ pc' = "done"
    /\ UNCHANGED <<input, leaves, i, rounds, pads, hashes, n, level, prev>>

\* Neither early return: fall through to the outer loop.
EnterLoop ==
    /\ pc = "entry"
    /\ len(leaves) # 0
    /\ ~(len(leaves) < 2)
    /\ pc' = "loop"
    /\ UNCHANGED <<input, leaves, i, result, rounds, pads, hashes, n, level, prev>>

\* while leaves.len() > 1: the test holds, a round starts.
StartRound ==
    /\ pc = "loop"
    /\ OuterGuard(leaves)
    /\ rounds' = rounds + 1
    /\ n' = len(leaves)
    /\ level' = leaves
    /\ pc' = "pad"
    /\ UNCHANGED <<input, leaves, i, result, pads, hashes, prev>>

\* while leaves.len() > 1: the test fails, the loop is left.
ExitLoop ==
    /\ pc = "loop"
    /\ ~OuterGuard(leaves)
    /\ pc' = "ret"
    /\ UNCHANGED <<input, leaves, i, result, rounds, pads, hashes, n, level, prev>>

\* Padding done for the leaf level only, not for the levels above it.
PadLeavesOnly ==
    /\ pc = "pad"
    /\ IF IsOdd(leaves) /\ rounds = 1
         THEN /\ leaves' = PushLast(leaves)
              /\ pads' = pads + 1
         ELSE UNCHANGED <<leaves, pads>>
    /\ prev' = leaves'
    /\ i' = 0
    /\ pc' = "inner"
    /\ UNCHANGED <<input, result, rounds, hashes, n, level>>

\* if leaves.len() & 1 != 0 { leaves.push(leaves[leaves.len() - 1]); }
\* let mut i = 0;
Pad ==
    /\ pc = "pad"
    /\ IF IsOdd(leaves)
         THEN IF InBounds(leaves, len(leaves) - 1)
                THEN /\ leaves' = PushLast(leaves)
                     /\ pads' = pads + 1
                     /\ prev' = leaves'
                     /\ i' = 0
                     /\ pc' = "inner"
                ELSE /\ pc' = "panic"
                     /\ UNCHANGED <<leaves, pads, prev, i>>
         ELSE /\ prev' = leaves
              /\ i' = 0
              /\ pc' = "inner"
              /\ UNCHANGED <<leaves, pads>>
    /\ UNCHANGED <<input, result, rounds, hashes, n, level>>

\* One iteration of the inner loop:
\*   let left = leaves[i * 2].hash_with(leaves[i * 2 + 1]);
\*   leaves[i] = left; i += 1;
Pair ==
    /\ pc = "inner"
    /\ InnerGuard(leaves, i)
    /\ IF InBounds(leaves, i * 2) /\ InBounds(leaves, i * 2 + 1) /\ InBounds(leaves, i)
         THEN /\ leaves' = Store(leaves, i, PairHash(leaves, i))
              /\ hashes' = hashes + 1
              /\ i' = i + 1
              /\ pc' = "inner"
         ELSE /\ pc' = "panic"
              /\ UNCHANGED <<leaves, i, hashes>>
    /\ UNCHANGED <<input, result, rounds, pads, n, level, prev>>

\* The inner loop's test fails:
\*   let drain_start = leaves.len() / 2; leaves.split_off(drain_start);
Truncate ==
    /\ pc = "inner"
    /\ ~InnerGuard(leaves, i)
    /\ leaves' = SplitOff(leaves)
    /\ pc' = "loop"
    /\ UNCHANGED <<input, i, result, rounds, pads, hashes, n, level, prev>>

\* leaves[0], the value of the function after the loop.
ReturnRoot ==
    /\ pc = "ret"
    /\ IF InBounds(leaves, 0)
         THEN /\ result' = Get(leaves, 0)
              /\ pc' = "done"
         ELSE /\ pc' = "panic"
              /\ UNCHANGED result
    /\ UNCHANGED <<input, leaves, i, rounds, pads, hashes, n, level, prev>>

Next ==
    \/ ReturnZero
    \/ ReturnSingle
    \/ EnterLoop
    \/ StartRound
    \/ ExitLoop
    \/ Pad
    \/ Pair
    \/ Truncate
    \/ ReturnRoot

Spec == Init /\ [][Next]_vars

\* The body runs to completion once called: no step of it waits on anything.
FairSpec == Spec /\ WF_vars(Next)

\* ------------------------------------------------------------ vocabulary
\* The call has returned.
Done == pc = "done"

\* m is a power of two.
RECURSIVE IsPow2(_)
IsPow2(m) == m = 1 \/ (m > 1 /\ m % 2 = 0 /\ IsPow2(m \div 2))

\* The least k with 2^k >= m, for m >= 1.
RECURSIVE CeilLog2(_)
CeilLog2(m) == IF m <= 1 THEN 0 ELSE 1 + CeilLog2((m + 1) \div 2)

\* d is a digest: a leaf digest or the compression of two digests.
RECURSIVE IsDigest(_)
IsDigest(d) ==
    IF "v" \in DOMAIN d THEN d \in LeafDigests
    ELSE DOMAIN d = {"l", "r"} /\ IsDigest(d.l) /\ IsDigest(d.r)

\* The fresh-buffer formulation of a round: one compression per consecutive
\* pair of the even-length level p, in pair order.
FreshLevel(p) == [k \in 1 .. Len(p) \div 2 |-> hash_with(p[2 * k - 1], p[2 * k])]

\* The level p with a copy of its last element appended when its length is odd.
Padded(p) == IF Len(p) % 2 = 1 THEN Append(p, p[Len(p)]) ELSE p

\* The step-by-step run and the operator form agree on every input.
RunMatchesOperator == Done => result = fast_merkle_root(input)

\* ---------------------------------------------------------------- claims
\* C1: the empty leaf vector returns the zero digest, and no compression,
\* padding or round is performed on the way.
EmptyReturnsZero ==
    input = <<>> =>
        /\ pc \in {"entry", "done"}
        /\ hashes = 0 /\ pads = 0 /\ rounds = 0
        /\ Done => result = zero

EmptyReturned == Done /\ input = <<>> /\ result = zero

\* C2: a one-element leaf vector returns its element unchanged, with no
\* compression and no padding.
SingleLeafIsRoot ==
    Len(input) = 1 =>
        /\ hashes = 0 /\ pads = 0
        /\ Done => result = input[1]

SingleNonZeroReturned == Done /\ Len(input) = 1 /\ input[1] # zero /\ result = input[1]

\* C3: two leaves a, b return hash_with(a, b), a on the left, after exactly
\* one round, one compression and no padding.
TwoLeavesCompressOnce ==
    (Done /\ Len(input) = 2) =>
        /\ result = hash_with(input[1], input[2])
        /\ rounds = 1 /\ hashes = 1 /\ pads = 0

TwoDistinctReturned == Done /\ Len(input) = 2 /\ input[1] # input[2] /\ rounds = 1

\* C4: three leaves a, b, c return h(h(a,b), h(c,c)); and in every round that
\* starts on a level of odd length, the buffer is that level extended by a
\* copy of its last element before pairing (an even level is left as it is),
\* so that an odd level's last element goes up as its compression with itself.
OddLevelDuplicatesLast ==
    /\ (Done /\ Len(input) = 3) =>
          result = hash_with(hash_with(input[1], input[2]), hash_with(input[3], input[3]))
    /\ (pc = "inner" /\ Len(level) % 2 = 1) =>
          /\ prev = Append(level, level[Len(level)])
          /\ i = 0 => leaves = prev
    /\ (pc = "inner" /\ Len(level) % 2 = 0) => prev = level
    /\ (pc = "loop" /\ rounds > 0 /\ Len(level) % 2 = 1) =>
          leaves[Len(leaves)] = hash_with(level[Len(level)], level[Len(level)])

ThreeLeavesReturned ==
    /\ Done /\ Len(input) = 3 /\ pads = 1
    /\ input[1] # input[2] /\ input[2] # input[3] /\ input[1] # input[3]

\* C5: five leaves h0..h4 pass through the levels [h01, h23, h44] and
\* [h(h01,h23), h(h44,h44)] and return h(h(h01,h23), h(h44,h44)); the padding
\* branch is taken in round 1 (5 -> 6) and again in round 2 (3 -> 4).
FiveLeavesLevels ==
    Len(input) = 5 =>
        LET h01 == hash_with(input[1], input[2])
            h23 == hash_with(input[3], input[4])
            h44 == hash_with(input[5], input[5])
            h0123 == hash_with(h01, h23)
            h4444 == hash_with(h44, h44)
        IN  /\ (pc = "inner" /\ rounds = 1) => prev = Append(input, input[5])
            /\ (pc = "loop" /\ rounds = 1) => leaves = <<h01, h23, h44>> /\ pads = 1
            /\ (pc = "inner" /\ rounds = 2) => prev = <<h01, h23, h44, h44>>
            /\ (pc = "loop" /\ rounds = 2) => leaves = <<h0123, h4444>> /\ pads = 2
            /\ (pc = "inner" /\ rounds = 3) => prev = <<h0123, h4444>>
            /\ (pc = "loop" /\ rounds = 3) => leaves = <<hash_with(h0123, h4444)>>
            /\ Done => /\ result = hash_with(h0123, h4444)
                       /\ rounds = 3 /\ pads = 2

FiveLeavesReturned ==
    /\ Done /\ Len(input) = 5 /\ rounds = 3 /\ pads = 2
    /\ Cardinality({input[k] : k \in 1 .. 5}) = NumDigests

\* C6: for two distinct digests a # b, the root of [a, b] differs from the
\* root of [b, a] (hash_with being order-sensitive).
OrderSensitive ==
    (Done /\ Len(input) = 2 /\ input[1] # input[2]) =>
        /\ result # fast_merkle_root(<<input[2], input[1]>>)
        /\ fast_merkle_root(<<input[2], input[1]>>) = hash_with(input[2], input[1])

SwappedPairReturned ==
    /\ Done /\ Len(input) = 2 /\ input[1] # input[2]
    /\ result = hash_with(input[1], input[2])

\* C7: on 2^k leaves the padding branch is never taken, every level a round
\* starts on has even length, and the call returns after exactly k rounds.
PowerOfTwoNoPadding ==
    (Len(input) >= 1 /\ IsPow2(Len(input))) =>
        /\ pads = 0
        /\ pc \in {"pad", "inner"} => n % 2 = 0 /\ IsPow2(n)
        /\ Done => rounds = CeilLog2(Len(input))

FourLeavesReturned == Done /\ Len(input) = 4 /\ rounds = 2 /\ pads = 0

\* C8 (safety part): no index read or written is out of bounds; inside the
\* outer loop the level is never empty; a round that starts on n >= 2
\* elements ends on ceil(n / 2) elements; the loop is left exactly at length 1;
\* the returned value is a digest; and every state before the return has a
\* next step, the number of rounds being bounded by ceil(log2(len)).
ReductionWellDefined ==
    /\ pc # "panic"
    /\ pc \in {"pad", "inner"} => n >= 2 /\ len(leaves) >= 2
    /\ pc = "pad" => len(leaves) = n
    /\ pc = "inner" =>
          /\ len(leaves) = IF n % 2 = 1 THEN n + 1 ELSE n
          /\ i <= len(leaves) \div 2
          /\ InnerGuard(leaves, i) =>
                /\ InBounds(leaves, i * 2)
                /\ InBounds(leaves, i * 2 + 1)
                /\ InBounds(leaves, i)
    /\ (pc = "loop" /\ rounds > 0) => len(leaves) = (n + 1) \div 2 /\ len(leaves) < n
    /\ pc = "loop" => len(leaves) >= 1
    /\ pc = "ret" => len(leaves) = 1
    /\ rounds <= CeilLog2(Len(input))
    /\ Done => IsDigest(result)
    /\ ~Done => ENABLED Next

\* C8: for every finite leaf vector the call returns a defined digest, and
\* the safety part above holds all the way.
AlwaysReturnsDigest == []ReductionWellDefined /\ <>(Done /\ IsDigest(result))

LongestReduced == Done /\ Len(input) = MaxLen /\ rounds = CeilLog2(MaxLen) /\ IsDigest(result)

\* C9: the in-place round equals the fresh-buffer round.  While the inner
\* loop runs, the slots 0 .. i-1 hold the compressions of the first i pairs of
\* the padded previous level and every pair not yet processed still reads the
\* values of the padded previous level; when the round ends, the buffer is the
\* sequence of compressions of the padded previous level in pair order, for
\* every level of length >= 2 a round starts on.
InPlaceEqualsFresh ==
    /\ pc = "inner" =>
          /\ prev = Padded(level)
          /\ Len(leaves) = Len(prev)
          /\ \A j \in 0 .. i - 1 :
                Get(leaves, j) = hash_with(Get(prev, 2 * j), Get(prev, 2 * j + 1))
          /\ \A j \in i .. Len(prev) \div 2 - 1 :
                /\ Get(leaves, 2 * j) = Get(prev, 2 * j)
                /\ Get(leaves, 2 * j + 1) = Get(prev, 2 * j + 1)
    /\ (pc = "loop" /\ rounds > 0) =>
          /\ Len(level) >= 2
          /\ leaves = FreshLevel(Padded(level))

WideRoundFinished ==
    /\ pc = "loop" /\ rounds = 1 /\ Len(level) = 6 /\ Len(leaves) = 3
    /\ level[1] # level[2] /\ level[3] # level[4] /\ level[5] # level[6]

\* C10: a leaf vector L of odd length n >= 3 has the same root as L with its
\* last element appended once more, a vector one leaf longer; a one-element
\* vector [d] does not: its root is d, the root of [d, d] is hash_with(d, d).
OddAndPaddedShareRoot ==
    /\ (Done /\ Len(input) >= 3 /\ Len(input) % 2 = 1) =>
          result = fast_merkle_root(Append(input, input[Len(input)]))
    /\ (Done /\ Len(input) = 1) =>
          /\ result = input[1]
          /\ fast_merkle_root(<<input[1], input[1]>>) = hash_with(input[1], input[1])
          /\ result # fast_merkle_root(<<input[1], input[1]>>)

OddNonZeroTailReturned ==
    Done /\ Len(input) = 5 /\ input[5] # zero /\ pads = 2

====
